---- MODULE Spec2Model ----
(***************************************************************************)
(* Model of the z80-assembler back end: the symbol table (Labels.ts), the  *)
(* expression evaluator and the AST byte emitters.                         *)
(*                                                                         *)
(* Source: src/libs/z80-assembler/src/lib/compiler/Labels.ts               *)
(*                                                                         *)
(* Note on label references.  labelValue (line 729) and JrRelative (line   *)
(* 401) call getLabelValue(pc, name, position, true, mustExist) while the  *)
(* function of line 46 takes the name only.  The model resolves the label  *)
(* NAME the node was built for: pc, position and the flags do not reach    *)
(* the symbol table.                                                       *)
(***************************************************************************)
EXTENDS Integers, Sequences, FiniteSets, TLC

VARIABLES
    labels,     \* the Map<string, Label> of line 12: a function on the names present
    last,       \* the last call made by the driver, its arguments and what it returned
                \* (for resetLabels: the entries the call cleared)
    decl,       \* history: argument of the most recent addLabel per name, and whether
                \* it replaced an earlier one
    pinned,     \* history: first non-null value a read of an expression-backed label returned
    fwd         \* history: progress of the forward-reference scenario per name

vars == <<labels, last, decl, pinned, fwd>>

----------------------------------------------------------------------------
(* Bounds *)

\* numbers the driver declares with addLabel are 1..MaxAddVal
MaxAddVal == 2
\* label values are kept inside -MaxVal..MaxVal
MaxVal == 3
\* frames of getLabelValue the call stack holds before the engine raises
\* RangeError (Maximum call stack size exceeded); any chain of distinct
\* names is shorter
MaxCallDepth == 4

Names == {"A", "B"}

----------------------------------------------------------------------------
(* Values: number | null, and the exception outcomes *)

Null == [tag |-> "null"]
Num(v) == [tag |-> "num", v |-> v]
RangeError == [tag |-> "RangeError"]
IsNum(r) == r.tag = "num"

----------------------------------------------------------------------------
(* Expression nodes *)

NoExpr == [kind |-> "null"]
value(nn) == [kind |-> "value", nn |-> nn]
labelValue(name) == [kind |-> "labelValue", name |-> name]
unaryOperation(e, op) == [kind |-> "unary", op |-> op, e |-> e]
binaryOperation(left, right, op) == [kind |-> "binary", op |-> op, left |-> left, right |-> right]

\* the map forms take the operator from the node (left.op, op)
unaryOperations(e, op) == unaryOperation(e, op)
binaryOperations(left, right, op) == binaryOperation(left, right, op)

\* the bitwise operators work on the 32-bit two's complement of their
\* operands; the operands and results of the model lie inside that range
RECURSIVE Pow2(_)
Pow2(n) == IF n = 0 THEN 1 ELSE 2 * Pow2(n - 1)

\* bit by bit over two's complement words, down to the sign bits; f is the
\* truth table of the operator as <<f(0,0), f(0,1), f(1,0), f(1,1)>>
RECURSIVE Bitwise(_, _, _)
Bitwise(f, a, b) ==
    IF a \in {0, 0 - 1} /\ b \in {0, 0 - 1}
    THEN 0 - f[2 * (a % 2) + (b % 2) + 1]
    ELSE f[2 * (a % 2) + (b % 2) + 1] + 2 * Bitwise(f, a \div 2, b \div 2)

Abs(a) == IF a < 0 THEN 0 - a ELSE a

operatorOr(a, b) == Bitwise(<<0, 1, 1, 1>>, a, b)
operatorXor(a, b) == Bitwise(<<0, 1, 1, 0>>, a, b)
operatorAnd(a, b) == Bitwise(<<0, 0, 0, 1>>, a, b)
\* the shift count is taken modulo 32
operatorLeftShift(a, b) == a * Pow2(b % 32)
operatorRightShift(a, b) == a \div Pow2(b % 32)
operatorAdd(a, b) == a + b
operatorSub(a, b) == a - b
operatorMul(a, b) == a * b
\* Math.trunc(a / b) and a % b for b # 0 (b = 0 gives Infinity or NaN, which
\* are not integers)
operatorDiv(a, b) ==
    IF (a < 0) = (b < 0) THEN Abs(a) \div Abs(b) ELSE 0 - (Abs(a) \div Abs(b))
operatorModulo(a, b) ==
    IF a < 0 THEN 0 - (Abs(a) % Abs(b)) ELSE a % Abs(b)
operatorPlus(a) == a
operatorNeg(a) == 0 - a
operatorInvert(a) == 0 - a - 1
operatorIdentity(a) == a

binaryOp(op, a, b) ==
    CASE op = "|" -> operatorOr(a, b)
      [] op = "^" -> operatorXor(a, b)
      [] op = "&" -> operatorAnd(a, b)
      [] op = "<<" -> operatorLeftShift(a, b)
      [] op = ">>" -> operatorRightShift(a, b)
      [] op = "+" -> operatorAdd(a, b)
      [] op = "-" -> operatorSub(a, b)
      [] op = "*" -> operatorMul(a, b)
      [] op = "/" -> operatorDiv(a, b)
      [] op = "%" -> operatorModulo(a, b)

unaryOp(op, a) ==
    CASE op = "-" -> operatorNeg(a)
      [] op = "+" -> operatorPlus(a)
      [] op = "~" -> operatorInvert(a)
      [] op = "" -> operatorIdentity(a)

----------------------------------------------------------------------------
(* Symbol table *)

Label(expression, val, known, used) ==
    [expression |-> expression, value |-> val, known |-> known, used |-> used]

MapSet(tbl, name, label) ==
    [n \in (DOMAIN tbl) \cup {name} |-> IF n = name THEN label ELSE tbl[n]]

EmptyMap == [n \in {} |-> NoExpr]

\* variant: the entries that are known survive the reset
resetLabelsKeepKnown(tbl) ==
    [n \in {m \in DOMAIN tbl : tbl[m].known} |-> tbl[n]]

resetLabels(tbl) == EmptyMap

\* value ?? 0
OrZero(val) == IF IsNum(val) THEN val.v ELSE 0

\* variant: the first declaration of a known label is kept
addLabelFirstWins(tbl, name, val) ==
    IF name \notin DOMAIN tbl
    THEN MapSet(tbl, name, Label(NoExpr, OrZero(val), IsNum(val), FALSE))
    ELSE IF tbl[name].known
         THEN tbl
         ELSE [tbl EXCEPT ![name].value = OrZero(val), ![name].known = IsNum(val)]

addLabel(tbl, name, val) ==
    IF name \notin DOMAIN tbl
    THEN MapSet(tbl, name, Label(NoExpr, OrZero(val), IsNum(val), FALSE))
    ELSE IF tbl[name].known
         THEN [tbl EXCEPT ![name].value = OrZero(val), ![name].known = IsNum(val)]
         ELSE [tbl EXCEPT ![name].value = OrZero(val), ![name].known = IsNum(val)]

\* variant: the expression replaces whatever the label held
addLabelExpressionOverwrite(tbl, name, expression) ==
    MapSet(tbl, name, Label(expression, 0, FALSE,
                            IF name \in DOMAIN tbl THEN tbl[name].used ELSE FALSE))

\* variant: an entry that exists, placeholder included, is left alone
addLabelExpressionIfAbsent(tbl, name, expression) ==
    IF name \notin DOMAIN tbl
    THEN MapSet(tbl, name, Label(expression, 0, FALSE, FALSE))
    ELSE tbl

\* variant: attaching an expression starts the entry afresh
addLabelExpressionFresh(tbl, name, expression) ==
    IF name \notin DOMAIN tbl
    THEN MapSet(tbl, name, Label(expression, 0, FALSE, FALSE))
    ELSE IF tbl[name].known
         THEN tbl
         ELSE [tbl EXCEPT ![name] = Label(expression, 0, FALSE, FALSE)]

addLabelExpression(tbl, name, expression) ==
    IF name \notin DOMAIN tbl
    THEN MapSet(tbl, name, Label(expression, 0, FALSE, FALSE))
    ELSE IF tbl[name].known
         THEN tbl
         ELSE [tbl EXCEPT ![name].expression = expression]

RECURSIVE getLabelValue(_, _, _)
RECURSIVE eval(_, _, _)

\* variant: the value of the expression is returned but not cached
getLabelValueNoCache(tbl, name, depth) ==
    IF depth > MaxCallDepth
    THEN [ret |-> RangeError, tbl |-> tbl]
    ELSE IF name \notin DOMAIN tbl
    THEN [ret |-> Null, tbl |-> MapSet(tbl, name, Label(NoExpr, 0, FALSE, TRUE))]
    ELSE LET t1 == [tbl EXCEPT ![name].used = TRUE] IN
         IF t1[name].known THEN [ret |-> Num(t1[name].value), tbl |-> t1]
         ELSE IF t1[name].expression = NoExpr THEN [ret |-> Null, tbl |-> t1]
         ELSE eval(t1[name].expression, t1, depth + 1)

\* variant: an expression that gives null settles the label at 0
getLabelValueCacheNull(tbl, name, depth) ==
    IF depth > MaxCallDepth
    THEN [ret |-> RangeError, tbl |-> tbl]
    ELSE IF name \notin DOMAIN tbl
    THEN [ret |-> Null, tbl |-> MapSet(tbl, name, Label(NoExpr, 0, FALSE, TRUE))]
    ELSE LET t1 == [tbl EXCEPT ![name].used = TRUE] IN
         IF t1[name].known THEN [ret |-> Num(t1[name].value), tbl |-> t1]
         ELSE IF t1[name].expression = NoExpr THEN [ret |-> Null, tbl |-> t1]
         ELSE LET r == eval(t1[name].expression, t1, depth + 1) IN
              IF r.ret = RangeError THEN r
              ELSE IF r.ret = Null
              THEN [ret |-> Null, tbl |-> [r.tbl EXCEPT ![name].known = TRUE]]
              ELSE [ret |-> r.ret,
                    tbl |-> [r.tbl EXCEPT ![name].value = r.ret.v, ![name].known = TRUE]]

\* [ret |-> number | null | RangeError, tbl |-> the table afterwards]
getLabelValue(tbl, name, depth) ==
    IF depth > MaxCallDepth
    THEN [ret |-> RangeError, tbl |-> tbl]
    ELSE IF name \notin DOMAIN tbl
    THEN [ret |-> Null, tbl |-> MapSet(tbl, name, Label(NoExpr, 0, FALSE, TRUE))]
    ELSE LET t1 == [tbl EXCEPT ![name].used = TRUE] IN
         IF t1[name].known THEN [ret |-> Num(t1[name].value), tbl |-> t1]
         ELSE IF t1[name].expression = NoExpr THEN [ret |-> Null, tbl |-> t1]
         ELSE LET r == eval(t1[name].expression, t1, depth + 1) IN
              IF ~IsNum(r.ret)
              THEN r
              ELSE [ret |-> r.ret,
                    tbl |-> [r.tbl EXCEPT ![name].value = r.ret.v, ![name].known = TRUE]]

\* variant: an unknown operand of a binary node counts as 0
evalNullAsZero(e, tbl, depth) ==
    CASE e.kind = "value" -> [ret |-> Num(e.nn), tbl |-> tbl]
      [] e.kind = "labelValue" -> getLabelValue(tbl, e.name, depth)
      [] e.kind = "unary" ->
            LET r == eval(e.e, tbl, depth) IN
            IF ~IsNum(r.ret) THEN r
            ELSE [ret |-> Num(unaryOp(e.op, r.ret.v)), tbl |-> r.tbl]
      [] e.kind = "binary" ->
            LET r == eval(e.right, tbl, depth) IN
            IF r.ret = RangeError THEN r
            ELSE IF e.left = NoExpr THEN r
            ELSE LET l == eval(e.left, r.tbl, depth) IN
                 IF l.ret = RangeError THEN l
                 ELSE [ret |-> Num(binaryOp(e.op, OrZero(l.ret), OrZero(r.ret))),
                       tbl |-> l.tbl]

\* Expression.eval: the closures of value, labelValue, unaryOperation(s) and
\* binaryOperation(s); the right side of a binary node is evaluated first
eval(e, tbl, depth) ==
    CASE e.kind = "value" -> [ret |-> Num(e.nn), tbl |-> tbl]
      [] e.kind = "labelValue" -> getLabelValue(tbl, e.name, depth)
      [] e.kind = "unary" ->
            LET r == eval(e.e, tbl, depth) IN
            IF ~IsNum(r.ret) THEN r
            ELSE [ret |-> Num(unaryOp(e.op, r.ret.v)), tbl |-> r.tbl]
      [] e.kind = "binary" ->
            LET r == eval(e.right, tbl, depth) IN
            IF r.ret = RangeError THEN r
            ELSE IF e.left = NoExpr THEN r
            ELSE LET l == eval(e.left, r.tbl, depth) IN
                 IF l.ret = RangeError THEN l
                 ELSE IF ~IsNum(l.ret) \/ ~IsNum(r.ret)
                      THEN [ret |-> Null, tbl |-> l.tbl]
                      ELSE [ret |-> Num(binaryOp(e.op, l.ret.v, r.ret.v)), tbl |-> l.tbl]

getLabel(tbl, name) == IF name \in DOMAIN tbl THEN tbl[name] ELSE NoExpr

\* the filter of line 71 compares the numeric field value with null
ValueIsNull(label) == label.value \notin Int

getUnknownLabels(tbl) ==
    {n \in DOMAIN tbl : ~tbl[n].known /\ ValueIsNull(tbl[n])}

----------------------------------------------------------------------------
(* Inputs of the driver *)

AddVals == {Null} \cup {Num(v) : v \in 1..MaxAddVal}

Leaves == {value(1)} \cup {labelValue(n) : n \in Names}

LabelExprs ==
    Leaves
    \cup {binaryOperation(labelValue(n), value(1), "+") : n \in Names}

InRange(tbl) == \A n \in DOMAIN tbl : tbl[n].value \in 0..MaxVal

----------------------------------------------------------------------------
(* History *)

Undeclared == [tag |-> "undeclared"]
NoPin == [tag |-> "none"]
FwdNone == [phase |-> "none"]

\* names whose entry a call created as a placeholder start the
\* forward-reference scenario; names whose entry a nested read changed leave it
FwdAfterRead(tbl1, tbl2, top) ==
    [n \in Names |->
        IF n \in DOMAIN tbl2 /\ n \notin DOMAIN tbl1 THEN [phase |-> "placeholder"]
        ELSE IF n = top THEN fwd[n]
        ELSE IF fwd[n].phase = "declared" /\ tbl2[n] # tbl1[n] THEN [phase |-> "done"]
        ELSE fwd[n]]

----------------------------------------------------------------------------
(* Symbol-table specification *)

Init ==
    /\ labels = EmptyMap
    /\ last = [op |-> "resetLabels", cleared |-> EmptyMap]
    /\ decl = [n \in Names |-> Undeclared]
    /\ pinned = [n \in Names |-> NoPin]
    /\ fwd = [n \in Names |-> FwdNone]

ResetLabels ==
    /\ labels' = resetLabels(labels)
    /\ last' = [op |-> "resetLabels", cleared |-> labels]
    /\ decl' = [n \in Names |-> Undeclared]
    /\ pinned' = [n \in Names |-> NoPin]
    /\ fwd' = [n \in Names |-> FwdNone]

AddLabel ==
    \E name \in Names, val \in AddVals :
        /\ labels' = addLabel(labels, name, val)
        /\ last' = [op |-> "addLabel", name |-> name, val |-> val]
        /\ decl' = [decl EXCEPT ![name] = [val |-> val, again |-> decl[name] # Undeclared]]
        /\ pinned' = [pinned EXCEPT ![name] = NoPin]
        /\ fwd' = [fwd EXCEPT ![name] =
                     IF fwd[name].phase = "placeholder"
                     THEN [phase |-> "declared", kind |-> "value", val |-> val]
                     ELSE IF fwd[name].phase = "none" THEN fwd[name]
                     ELSE [phase |-> "done"]]

AddLabelExpression ==
    \E name \in Names, expression \in LabelExprs :
        /\ labels' = addLabelExpression(labels, name, expression)
        \* the argument is recorded for the calls made on a label that is not known
        /\ last' = [op |-> "addLabelExpression", name |-> name,
                    expression |-> IF name \in DOMAIN labels /\ labels[name].known
                                   THEN NoExpr ELSE expression]
        /\ pinned' = [pinned EXCEPT ![name] = NoPin]
        /\ fwd' = [fwd EXCEPT ![name] =
                     IF fwd[name].phase = "placeholder"
                     THEN [phase |-> "declared", kind |-> "expression", expression |-> expression]
                     ELSE IF fwd[name].phase = "none" THEN fwd[name]
                     ELSE [phase |-> "done"]]
        /\ UNCHANGED decl

GetLabelValue ==
    \E name \in Names :
        LET r == getLabelValue(labels, name, 1) IN
        /\ InRange(r.tbl)
        /\ labels' = r.tbl
        /\ last' = [op |-> "getLabelValue", name |-> name, ret |-> r.ret,
                    absent |-> name \notin DOMAIN labels]
        /\ pinned' = IF pinned[name] = NoPin /\ IsNum(r.ret) /\ r.tbl[name].expression # NoExpr
                     THEN [pinned EXCEPT ![name] = r.ret]
                     ELSE pinned
        /\ fwd' = [FwdAfterRead(labels, r.tbl, name) EXCEPT ![name] =
                     IF name \notin DOMAIN labels THEN [phase |-> "placeholder"]
                     ELSE IF fwd[name].phase = "declared"
                          THEN [fwd[name] EXCEPT !.phase =
                                   IF IsNum(r.ret) THEN "resolved" ELSE "done"]
                          ELSE fwd[name]]
        /\ UNCHANGED decl

GetUnknownLabels ==
    /\ last' = [op |-> "getUnknownLabels", ret |-> getUnknownLabels(labels)]
    /\ UNCHANGED <<labels, decl, pinned, fwd>>

Next ==
    \/ ResetLabels
    \/ AddLabel
    \/ AddLabelExpression
    \/ GetLabelValue
    \/ GetUnknownLabels

Spec == Init /\ [][Next]_vars

----------------------------------------------------------------------------
(* AST byte emitters *)

\* width of the window of values tried around each limit of an encoding
Margin == 2

CompilationError(message) == [tag |-> "CompilationError", message |-> message]
Bytes(bs) == [tag |-> "bytes", bytes |-> bs]

\* a & b and a >> n of two non-negative int32 values
RECURSIVE BitAnd(_, _)
BitAnd(a, b) ==
    IF a = 0 \/ b = 0 THEN 0
    ELSE (IF a % 2 = 1 /\ b % 2 = 1 THEN 1 ELSE 0) + 2 * BitAnd(a \div 2, b \div 2)

RECURSIVE ShiftRight(_, _)
ShiftRight(a, n) == IF n = 0 THEN a ELSE ShiftRight(a \div 2, n - 1)

\* the statements of each generate that follow the evaluation of the
\* expression; v is what the evaluation gave
\* variant: high byte first
Value16BytesBigEndian(v) ==
    IF v = RangeError THEN RangeError
    ELSE IF v = Null THEN CompilationError("Not able to determine the 16-bits value")
    ELSE IF v.v < 0 - 65536 \/ v.v > 65535 THEN CompilationError("Invalid 16-bits value")
    ELSE LET w == IF v.v < 0 THEN 65536 + v.v ELSE v.v IN
         Bytes(<<ShiftRight(BitAnd(w, 65280), 8), BitAnd(w, 255)>>)

Value16Bytes(v) ==
    IF v = RangeError THEN RangeError
    ELSE IF v = Null THEN CompilationError("Not able to determine the 16-bits value")
    ELSE IF v.v < 0 - 65536 \/ v.v > 65535 THEN CompilationError("Invalid 16-bits value")
    ELSE LET w == IF v.v < 0 THEN 65536 + v.v ELSE v.v IN
         Bytes(<<BitAnd(w, 255), ShiftRight(BitAnd(w, 65280), 8)>>)

Value8Bytes(v) ==
    IF v = RangeError THEN RangeError
    ELSE IF v = Null THEN CompilationError("Not able to determine the 8-bits value")
    ELSE IF v.v < 0 - 256 \/ v.v > 255 THEN CompilationError("Invalid 8-bits value")
    ELSE Bytes(<<IF v.v < 0 THEN 256 + v.v ELSE v.v>>)

\* variant: the range is checked before the negation
ValueNeg8BytesCheckFirst(v) ==
    IF v = RangeError THEN RangeError
    ELSE IF v = Null THEN CompilationError("Not able to determine the 8-bits value")
    ELSE IF v.v < 0 - 256 \/ v.v > 255 THEN CompilationError("Invalid 8-bits value")
    ELSE LET n == 0 - v.v IN
         Bytes(<<IF n < 0 THEN 256 + n ELSE n>>)

ValueNeg8Bytes(v) ==
    IF v = RangeError THEN RangeError
    ELSE IF v = Null THEN CompilationError("Not able to determine the 8-bits value")
    ELSE LET n == 0 - v.v IN
         IF n < 0 - 256 \/ n > 255 THEN CompilationError("Invalid 8-bits value")
         ELSE Bytes(<<IF n < 0 THEN 256 + n ELSE n>>)

\* variant: the range is checked after the bias
JrBytesBiasFirst(offset) ==
    IF offset = RangeError THEN RangeError
    ELSE IF offset = Null THEN CompilationError("Not able to determine the offset value")
    ELSE LET o == offset.v - 2 IN
         IF o < 0 - 126 \/ o > 129
         THEN CompilationError("Invalid offset for JR instruction")
         ELSE Bytes(<<IF o < 0 THEN 256 + o ELSE o>>)

JrBytes(offset) ==
    IF offset = RangeError THEN RangeError
    ELSE IF offset = Null THEN CompilationError("Not able to determine the offset value")
    ELSE IF offset.v < 0 - 126 \/ offset.v > 129
         THEN CompilationError("Invalid offset for JR instruction")
    ELSE LET o == offset.v - 2 IN
         Bytes(<<IF o < 0 THEN 256 + o ELSE o>>)

\* variant: the distance is taken from the label to the instruction
JrRelativeBytesReversed(pc, targetAddress) ==
    IF pc = Null THEN CompilationError("Not able to determine PC value")
    ELSE IF targetAddress = RangeError THEN RangeError
    ELSE IF targetAddress = Null
         THEN CompilationError("Not able to determine the value of label")
    ELSE LET offset == pc.v - targetAddress.v IN
         IF offset < 0 - 126 \/ offset > 129
         THEN CompilationError("Label is to far from JR instruction")
         ELSE LET o == offset - 2 IN
              Bytes(<<IF o < 0 THEN 256 + o ELSE o>>)

\* targetAddress is what getLabelValue gave for the label of the element
JrRelativeBytes(pc, targetAddress) ==
    IF pc = Null THEN CompilationError("Not able to determine PC value")
    ELSE IF targetAddress = RangeError THEN RangeError
    ELSE IF targetAddress = Null
         THEN CompilationError("Not able to determine the value of label")
    ELSE LET offset == targetAddress.v - pc.v IN
         IF offset < 0 - 126 \/ offset > 129
         THEN CompilationError("Label is to far from JR instruction")
         ELSE LET o == offset - 2 IN
              Bytes(<<IF o < 0 THEN 256 + o ELSE o>>)

Value16Size == 2
Value8Size == 1
ValueNeg8Size == 1
JrSize == 1
JrRelativeSize == 1

----------------------------------------------------------------------------
(* Inputs of the emitters *)

Near(c) == (c - Margin)..(c + Margin)

\* the limits of the encodings and the values the documentation quotes
EmitVals ==
    Near(0 - 65536) \cup Near(0 - 32768) \cup Near(0 - 256) \cup Near(0 - 126)
    \cup Near(0) \cup Near(129) \cup Near(255) \cup Near(4660)
    \cup Near(32767) \cup Near(65535)

EmitExprs == {value(n) : n \in EmitVals} \cup {labelValue(n) : n \in Names}

Targets == {102, 228, 229, 230}
Pcs == {Null, Num(100), Num(228), Num(229)}

\* tables the driver has built when the final pass generates bytes
EmitTables ==
    {EmptyMap, addLabel(EmptyMap, "A", Null)}
    \cup {addLabel(EmptyMap, "A", Num(t)) : t \in Targets}
    \cup {addLabelExpression(addLabel(EmptyMap, "A", Num(t)), "B",
              binaryOperation(labelValue("A"), value(1), "+")) : t \in Targets}

----------------------------------------------------------------------------
(* Emitter specification: the final pass calls generate on the elements *)

InitEmit ==
    /\ labels \in EmitTables
    /\ last = [op |-> "resetLabels", cleared |-> EmptyMap]
    /\ decl = [n \in Names |-> Undeclared]
    /\ pinned = [n \in Names |-> NoPin]
    /\ fwd = [n \in Names |-> FwdNone]

Value16Generate ==
    \E expression \in EmitExprs :
        LET r == eval(expression, labels, 1) IN
        /\ labels' = r.tbl
        /\ last' = [op |-> "Value16.generate", v |-> r.ret, size |-> Value16Size,
                    out |-> Value16Bytes(r.ret)]
        /\ UNCHANGED <<decl, pinned, fwd>>

Value8Generate ==
    \E expression \in EmitExprs :
        LET r == eval(expression, labels, 1) IN
        /\ labels' = r.tbl
        /\ last' = [op |-> "Value8.generate", v |-> r.ret, size |-> Value8Size,
                    out |-> Value8Bytes(r.ret)]
        /\ UNCHANGED <<decl, pinned, fwd>>

ValueNeg8Generate ==
    \E expression \in EmitExprs :
        LET r == eval(expression, labels, 1) IN
        /\ labels' = r.tbl
        /\ last' = [op |-> "ValueNeg8.generate", v |-> r.ret, size |-> ValueNeg8Size,
                    out |-> ValueNeg8Bytes(r.ret)]
        /\ UNCHANGED <<decl, pinned, fwd>>

JrGenerate ==
    \E expression \in EmitExprs :
        LET r == eval(expression, labels, 1) IN
        /\ labels' = r.tbl
        /\ last' = [op |-> "Jr.generate", v |-> r.ret, size |-> JrSize,
                    out |-> JrBytes(r.ret)]
        /\ UNCHANGED <<decl, pinned, fwd>>

JrRelativeGenerate ==
    \E label \in Names, pc \in Pcs :
        LET r == IF pc = Null THEN [ret |-> Null, tbl |-> labels]
                 ELSE getLabelValue(labels, label, 1) IN
        /\ labels' = r.tbl
        /\ last' = [op |-> "JrRelative.generate", pc |-> pc, label |-> label,
                    v |-> r.ret, size |-> JrRelativeSize,
                    out |-> JrRelativeBytes(pc, r.ret)]
        /\ UNCHANGED <<decl, pinned, fwd>>

NextEmit ==
    \/ Value16Generate
    \/ Value8Generate
    \/ ValueNeg8Generate
    \/ JrGenerate
    \/ JrRelativeGenerate

SpecEmit == InitEmit /\ [][NextEmit]_vars

----------------------------------------------------------------------------
(* Properties of the symbol table, checked under Spec *)

\* C1: after any sequence of operations since the last reset,
\* getUnknownLabels includes every name that was only read through
\* getLabelValue and never declared, and excludes every name whose most recent
\* addLabel gave a number.
C1_UnknownLabelsListed ==
    last.op = "getUnknownLabels" =>
        \A x \in Names :
            /\ (fwd[x].phase = "placeholder" /\ decl[x] = Undeclared) => x \in last.ret
            /\ (decl[x] # Undeclared /\ IsNum(decl[x].val)) => x \notin last.ret

\* C2: once getLabelValue(N) has returned a number v for a label N that holds
\* an expression, every later getLabelValue(N) returns v as long as the calls
\* in between declare other names only.
C2_MemoizedValueStable ==
    (last.op = "getLabelValue" /\ pinned[last.name] # NoPin)
        => last.ret = pinned[last.name]

\* C2 witness: a read returned the pinned value although the stored expression,
\* evaluated on the labels as they are now, gives another number.
C2_Witness ==
    /\ last.op = "getLabelValue"
    /\ pinned[last.name] # NoPin
    /\ last.ret = pinned[last.name]
    /\ LET r == eval(labels[last.name].expression, labels, 2).ret IN
       IsNum(r) /\ r # last.ret

\* C3: for a label that holds no expression, getLabelValue returns the
\* argument of the most recent addLabel of that name: the number, or null.
C3_LastDeclarationWins ==
    (/\ last.op = "getLabelValue"
     /\ decl[last.name] # Undeclared
     /\ labels[last.name].expression = NoExpr)
        => last.ret = decl[last.name].val

\* C3 witness: a read of a direct-value label declared more than once.
C3_Witness ==
    /\ last.op = "getLabelValue"
    /\ decl[last.name] # Undeclared
    /\ decl[last.name].again
    /\ labels[last.name].expression = NoExpr
    /\ last.ret = Num(2)

\* C4 as stated: within a run no call turns a known label that holds an
\* expression back into an unknown one.
C4_KnownNeverLost ==
    [][\A n \in DOMAIN labels :
          (labels[n].expression # NoExpr /\ labels[n].known /\ last'.op # "resetLabels")
              => (n \in DOMAIN labels' /\ labels'[n].known)]_vars

\* C4 amended: within a run a known label that holds an expression becomes
\* unknown only by addLabel of that name with null.
C4_KnownLostOnlyByAddLabelNull ==
    [][\A n \in DOMAIN labels :
          (/\ labels[n].expression # NoExpr
           /\ labels[n].known
           /\ last'.op # "resetLabels"
           /\ ~(last'.op = "addLabel" /\ last'.name = n /\ decl'[n].val = Null))
              => (n \in DOMAIN labels' /\ labels'[n].known)]_vars

\* C4 witness: a declaration was made on a known label that holds an
\* expression, and the label is still known.
C4_Witness ==
    /\ last.op \in {"addLabel", "addLabelExpression"}
    /\ labels[last.name].expression # NoExpr
    /\ labels[last.name].known
    /\ labels[last.name].used

\* C5: every getLabelValue call returns a number or null, also when the
\* stored expressions refer to each other or to themselves.
C5_ResolutionReturns ==
    last.op = "getLabelValue" => last.ret.tag \in {"num", "null"}

\* C10: a read of a name that was never declared returns null; after one later
\* declaration of that name, by addLabel with a number v or by
\* addLabelExpression with an expression that evaluates to v, the next
\* getLabelValue of the name returns v.
C10_ForwardReference ==
    [][/\ (last'.op = "getLabelValue" /\ last'.absent) => last'.ret = Null
       /\ \A n \in Names :
            (last'.op = "getLabelValue" /\ last'.name = n /\ fwd[n].phase = "declared")
            => /\ (fwd[n].kind = "value" /\ IsNum(fwd[n].val))
                     => last'.ret = fwd[n].val
               /\ (fwd[n].kind = "expression"
                     /\ IsNum(eval(fwd[n].expression, labels, 2).ret))
                     => last'.ret = eval(fwd[n].expression, labels, 2).ret]_vars

\* C10 witness: both kinds of late declaration have resolved a placeholder.
C10_Witness ==
    /\ last.op = "getLabelValue"
    /\ fwd["A"].phase = "resolved" /\ fwd["A"].kind = "expression"
    /\ fwd["B"].phase = "resolved" /\ fwd["B"].kind = "value"

----------------------------------------------------------------------------
(* Properties of the emitters, checked under SpecEmit *)

SameOutcome(a, b) ==
    /\ a.tag = b.tag
    /\ a.tag = "bytes" => a.bytes = b.bytes

\* C6: Value8.generate on v emits 256 + v for -256 <= v <= -1, v for
\* 0 <= v <= 255, and raises a CompilationError for any other v and for an
\* unresolved expression; ValueNeg8.generate on v gives what Value8.generate
\* gives on -v.
C6_Value8Encoding ==
    /\ last.op = "Value8.generate" =>
        /\ last.size = 1
        /\ last.v = Null => last.out.tag = "CompilationError"
        /\ IsNum(last.v) =>
             LET v == last.v.v IN
             /\ (0 - 256 <= v /\ v <= 0 - 1) => last.out = Bytes(<<256 + v>>)
             /\ (0 <= v /\ v <= 255) => last.out = Bytes(<<v>>)
             /\ (v < 0 - 256 \/ v > 255) => last.out.tag = "CompilationError"
    /\ last.op = "ValueNeg8.generate" =>
        /\ last.size = 1
        /\ last.v = Null => last.out.tag = "CompilationError"
        /\ IsNum(last.v) => last.out = Value8Bytes(Num(0 - last.v.v))

\* C6 witness: the negated emitter accepted 256, which the plain one rejects.
C6_Witness ==
    /\ last.op = "ValueNeg8.generate"
    /\ last.v = Num(256)
    /\ last.out = Bytes(<<0>>)

\* C7: Value16 has size 2; generate raises a CompilationError for an
\* unresolved expression and for v outside [-65536, 65535], and otherwise
\* emits [w mod 256, w div 256] with w = v for v >= 0 and w = v + 65536 for
\* v < 0; 0x1234 gives [0x34, 0x12] and -1 gives [0xFF, 0xFF].
C7_Value16Encoding ==
    last.op = "Value16.generate" =>
        /\ last.size = 2
        /\ last.v = Null => last.out.tag = "CompilationError"
        /\ IsNum(last.v) =>
             LET v == last.v.v
                 w == IF v >= 0 THEN v ELSE v + 65536 IN
             /\ (v < 0 - 65536 \/ v > 65535) => last.out.tag = "CompilationError"
             /\ (0 - 65536 <= v /\ v <= 65535)
                   => last.out = Bytes(<<w % 256, w \div 256>>)
             /\ v = 4660 => last.out = Bytes(<<52, 18>>)
             /\ v = 0 - 1 => last.out = Bytes(<<255, 255>>)

\* C7 witness: 0x1234 was emitted low byte first.
C7_Witness ==
    /\ last.op = "Value16.generate"
    /\ last.v = Num(4660)
    /\ last.out = Bytes(<<52, 18>>)

\* C8: Jr.generate raises a CompilationError for an unresolved expression and
\* for an offset o outside [-126, 129], and otherwise emits o - 2 when
\* o - 2 >= 0 and o - 2 + 256 when o - 2 < 0, a byte of 0..255.
C8_JrEncoding ==
    last.op = "Jr.generate" =>
        /\ last.v = Null => last.out.tag = "CompilationError"
        /\ IsNum(last.v) =>
             LET o == last.v.v IN
             /\ (o < 0 - 126 \/ o > 129) => last.out.tag = "CompilationError"
             /\ (0 - 126 <= o /\ o <= 129) =>
                  /\ last.out = Bytes(<<IF o - 2 >= 0 THEN o - 2 ELSE o - 2 + 256>>)
                  /\ last.out.bytes[1] \in 0..255

\* C8 witness: the lowest offset, -126, was emitted as 128.
C8_Witness ==
    /\ last.op = "Jr.generate"
    /\ last.v = Num(0 - 126)
    /\ last.out = Bytes(<<128>>)

\* C9: JrRelative.generate(pc) raises a CompilationError when the label does
\* not resolve, and otherwise gives the outcome of Jr.generate on the offset
\* target - pc; with pc = 100 the targets 102, 228 and 229 emit 0x00, 0x7E and
\* 0x7F and the target 230 raises an error.
C9_JrRelativeEncoding ==
    (last.op = "JrRelative.generate" /\ last.pc # Null) =>
        LET known == last.label \in DOMAIN labels /\ labels[last.label].known
            target == labels[last.label].value IN
        /\ ~known => last.out.tag = "CompilationError"
        /\ known =>
            /\ SameOutcome(last.out, JrBytes(Num(target - last.pc.v)))
            /\ (last.pc = Num(100) /\ target = 102) => last.out = Bytes(<<0>>)
            /\ (last.pc = Num(100) /\ target = 228) => last.out = Bytes(<<126>>)
            /\ (last.pc = Num(100) /\ target = 229) => last.out = Bytes(<<127>>)
            /\ (last.pc = Num(100) /\ target = 230) => last.out.tag = "CompilationError"

\* C9 witness: a branch from 100 to a label that its expression resolves to
\* 229 was emitted as 0x7F.
C9_Witness ==
    /\ last.op = "JrRelative.generate"
    /\ last.pc = Num(100)
    /\ last.label = "B"
    /\ labels["B"].known /\ labels["B"].value = 229
    /\ last.out = Bytes(<<127>>)

----------------------------------------------------------------------------
(* Further properties of the symbol table, checked under Spec *)

\* C11: addLabelExpression(N, e) leaves the whole table unchanged when N is
\* known; when N exists and is unknown it replaces the stored expression of N
\* by e and leaves the value, known and used fields of N and every other label
\* unchanged; when N is absent it creates N unknown, unused, with value 0 and
\* expression e, and leaves every other label unchanged.
C11_AddLabelExpressionFrame ==
    [][last'.op = "addLabelExpression" =>
        LET n == last'.name
            e == last'.expression IN
        /\ (n \in DOMAIN labels /\ labels[n].known) => labels' = labels
        /\ (n \in DOMAIN labels /\ ~labels[n].known) =>
             /\ DOMAIN labels' = DOMAIN labels
             /\ labels'[n].expression = e
             /\ labels'[n].value = labels[n].value
             /\ labels'[n].known = labels[n].known
             /\ labels'[n].used = labels[n].used
             /\ \A m \in DOMAIN labels \ {n} : labels'[m] = labels[m]
        /\ n \notin DOMAIN labels =>
             /\ DOMAIN labels' = DOMAIN labels \cup {n}
             /\ labels'[n] = [expression |-> e, value |-> 0, known |-> FALSE, used |-> FALSE]
             /\ \A m \in DOMAIN labels : labels'[m] = labels[m]]_vars

\* C11 witness: an expression was attached to an unknown label that had been
\* read before, next to a known label.
C11_Witness ==
    /\ last.op = "addLabelExpression"
    /\ ~labels[last.name].known
    /\ labels[last.name].used
    /\ labels[last.name].expression = last.expression
    /\ \E m \in DOMAIN labels : m # last.name /\ labels[m].known

\* C12: after resetLabels the table is empty whatever preceded: getLabel(N) is
\* undefined and getLabelValue(N) returns null for every N, and until N is
\* declared again every read of N returns null and finds no value, expression
\* or known flag of the run before (the entry it finds is the placeholder of a
\* read of this run).
C12_ResetClearsAll ==
    /\ last.op = "resetLabels" =>
         /\ labels = EmptyMap
         /\ \A n \in Names :
              /\ getLabel(labels, n) = NoExpr
              /\ getLabelValue(labels, n, 1).ret = Null
    /\ \A n \in Names :
         (decl[n] = Undeclared /\ fwd[n].phase \in {"none", "placeholder"}
              /\ n \in DOMAIN labels /\ labels[n].expression = NoExpr)
         => /\ labels[n] = [expression |-> NoExpr, value |-> 0, known |-> FALSE, used |-> TRUE]
            /\ fwd[n].phase = "placeholder"
    /\ (last.op = "getLabelValue" /\ decl[last.name] = Undeclared
            /\ labels[last.name].expression = NoExpr)
         => last.ret = Null

\* C12 witness: the call cleared a table that held a known, used label with an
\* expression and a label declared by value.
C12_Witness ==
    /\ last.op = "resetLabels"
    /\ labels = EmptyMap
    /\ DOMAIN last.cleared = Names
    /\ \E n \in Names :
         /\ last.cleared[n].known /\ last.cleared[n].used
         /\ last.cleared[n].expression # NoExpr
    /\ \E n \in Names :
         last.cleared[n].known /\ last.cleared[n].expression = NoExpr

\* C13: a getLabelValue(N) call that returns null caches nothing: N stays
\* unknown with the value and the expression it had, only used becomes true,
\* and an absent N becomes a placeholder without expression; a call on an
\* unknown N whose stored expression evaluates to v sets value = v and
\* known = true, keeps the expression and returns v.
C13_NullIsNotCached ==
    [][last'.op = "getLabelValue" =>
        LET n == last'.name IN
        /\ (last'.ret = Null /\ n \in DOMAIN labels) =>
             /\ ~labels[n].known
             /\ labels'[n] = [labels[n] EXCEPT !.used = TRUE]
        /\ (last'.ret = Null /\ n \notin DOMAIN labels) =>
             labels'[n] = [expression |-> NoExpr, value |-> 0, known |-> FALSE, used |-> TRUE]
        /\ (n \in DOMAIN labels /\ ~labels[n].known /\ labels[n].expression # NoExpr) =>
             LET v == eval(labels[n].expression, labels, 2).ret IN
             /\ last'.ret = v
             /\ IsNum(v) =>
                  labels'[n] = [expression |-> labels[n].expression, value |-> v.v,
                                known |-> TRUE, used |-> TRUE]]_vars

\* C13 witness: a read evaluated the stored expression, got null and left the
\* label unknown, with its expression, for a later retry.
C13_Witness ==
    /\ last.op = "getLabelValue"
    /\ last.ret = Null
    /\ labels[last.name].expression # NoExpr
    /\ labels[last.name].expression.kind = "binary"
    /\ ~labels[last.name].known
    /\ labels[last.name].value = 0

----------------------------------------------------------------------------
(* Expression specification: nodes are built and evaluated on a table *)

ExprVals == {0 - 7, 2, 3}
ExprLeaves == {value(n) : n \in ExprVals} \cup {labelValue(n) : n \in Names}
BinaryOps == {"|", "^", "&", "<<", ">>", "+", "-", "*", "/", "%"}
UnaryOps == {"-", "+", "~", ""}

\* eval(pc, mustExist) as the emitters call it, and eval() as line 57 does
ExprCalls == {<<Num(100), TRUE>>, <<Null, FALSE>>}

\* A known, B unknown or defined from A
ExprTables ==
    {EmptyMap,
     addLabel(addLabel(EmptyMap, "A", Num(6)), "B", Null),
     addLabelExpression(addLabel(EmptyMap, "A", Num(6)), "B",
         binaryOperation(labelValue("A"), value(1), "+"))}

InitExpr ==
    /\ labels \in ExprTables
    /\ last = [op |-> "resetLabels", cleared |-> EmptyMap]
    /\ decl = [n \in Names |-> Undeclared]
    /\ pinned = [n \in Names |-> NoPin]
    /\ fwd = [n \in Names |-> FwdNone]

Evaluate(op, e, call) ==
    LET r == eval(e, labels, 1) IN
    /\ labels' = r.tbl
    /\ last' = [op |-> op, e |-> e, pc |-> call[1], mustExist |-> call[2], ret |-> r.ret]
    /\ UNCHANGED <<decl, pinned, fwd>>

EvalValue ==
    \E nn \in ExprVals, call \in ExprCalls :
        Evaluate("value.eval", value(nn), call)

EvalLabelValue ==
    \E name \in Names, call \in ExprCalls :
        Evaluate("labelValue.eval", labelValue(name), call)

EvalUnaryOperation ==
    \E e \in ExprLeaves, op \in UnaryOps :
        Evaluate("unaryOperation.eval", unaryOperations(e, op), <<Num(100), TRUE>>)

EvalBinaryOperation ==
    \E left \in ExprLeaves \cup {NoExpr}, right \in ExprLeaves, op \in BinaryOps :
        Evaluate("binaryOperation.eval", binaryOperations(left, right, op),
                 <<Num(100), TRUE>>)

NextExpr ==
    \/ EvalValue
    \/ EvalLabelValue
    \/ EvalUnaryOperation
    \/ EvalBinaryOperation

SpecExpr == InitExpr /\ [][NextExpr]_vars

----------------------------------------------------------------------------
(* Byte-block emitter *)

\* lengths of the blocks tried are -Margin..MaxLen, and the label values
MaxLen == 3

\* position1 tells whether pos1 was given; value is NoExpr when it was not
ByteBlock(length, position1, val) ==
    [length |-> length, position1 |-> position1, value |-> val]

\* the statements of get size that follow this.length.eval(0, true)
ByteBlockSize(size) ==
    IF size = RangeError THEN RangeError
    ELSE IF size = Null THEN CompilationError("Unknown size for the data block")
    ELSE IF size.v < 0 THEN CompilationError("Invalid size size for the data block")
    ELSE size

\* variant: a negative fill value is kept as it is
ByteBlockGetValueNoFold(block, pc, tbl) ==
    IF block.value = NoExpr \/ ~block.position1 THEN [ret |-> Num(0), tbl |-> tbl]
    ELSE LET r == eval(block.value, tbl, 1) IN
         IF r.ret = RangeError THEN r
         ELSE IF r.ret = Null
         THEN [ret |-> CompilationError("Not able to determine a value"), tbl |-> r.tbl]
         ELSE IF r.ret.v < 0 - 256 \/ r.ret.v > 255
         THEN [ret |-> CompilationError("Invalid 8-bits value"), tbl |-> r.tbl]
         ELSE r

\* [ret |-> the fill byte or the exception, tbl |-> the table afterwards]
ByteBlockGetValue(block, pc, tbl) ==
    IF block.value = NoExpr \/ ~block.position1 THEN [ret |-> Num(0), tbl |-> tbl]
    ELSE LET r == eval(block.value, tbl, 1) IN
         IF r.ret = RangeError THEN r
         ELSE IF r.ret = Null
         THEN [ret |-> CompilationError("Not able to determine a value"), tbl |-> r.tbl]
         ELSE IF r.ret.v < 0 - 256 \/ r.ret.v > 255
         THEN [ret |-> CompilationError("Invalid 8-bits value"), tbl |-> r.tbl]
         ELSE [ret |-> Num(IF r.ret.v < 0 THEN 256 + r.ret.v ELSE r.ret.v), tbl |-> r.tbl]

\* new Array(this.size) first, then fill(this.getValue(pc))
ByteBlockGenerateBytes(block, pc, tbl) ==
    LET s == eval(block.length, tbl, 1)
        size == ByteBlockSize(s.ret) IN
    IF ~IsNum(size) THEN [ret |-> size, tbl |-> s.tbl]
    ELSE LET g == ByteBlockGetValue(block, pc, s.tbl) IN
         IF ~IsNum(g.ret) THEN g
         ELSE [ret |-> Bytes([i \in 1..size.v |-> g.ret.v]), tbl |-> g.tbl]

BlockLengths ==
    {value(n) : n \in (0 - Margin)..MaxLen} \cup {labelValue(n) : n \in Names}

BlockFills ==
    {value(n) : n \in Near(0 - 256) \cup Near(0) \cup Near(255)}
    \cup {labelValue(n) : n \in Names}

\* dataBlock is called with the fill expression and its position, or with neither
Blocks ==
    {ByteBlock(length, FALSE, NoExpr) : length \in BlockLengths}
    \cup {ByteBlock(length, TRUE, val) : length \in BlockLengths, val \in BlockFills}

BlockPcs == {Num(0), Num(100)}

ByteBlockGetSize ==
    \E length \in BlockLengths :
        LET s == eval(length, labels, 1) IN
        /\ labels' = s.tbl
        /\ last' = [op |-> "ByteBlock.size", block |-> ByteBlock(length, FALSE, NoExpr),
                    out |-> ByteBlockSize(s.ret)]
        /\ UNCHANGED <<decl, pinned, fwd>>

ByteBlockGenerate ==
    \E block \in Blocks, pc \in BlockPcs :
        LET r == ByteBlockGenerateBytes(block, pc, labels) IN
        /\ labels' = r.tbl
        /\ last' = [op |-> "ByteBlock.generate", block |-> block, pc |-> pc, out |-> r.ret]
        /\ UNCHANGED <<decl, pinned, fwd>>

NextBlock ==
    \/ ByteBlockGetSize
    \/ ByteBlockGenerate

SpecBlock == InitExpr /\ [][NextBlock]_vars

----------------------------------------------------------------------------
(* Properties of the expression evaluator, checked under SpecExpr *)

\* what a literal or a label reference stands for once the call has returned
LeafNow(e) ==
    IF e.kind = "value" THEN Num(e.nn)
    ELSE IF e.name \in DOMAIN labels /\ labels[e.name].known
         THEN Num(labels[e.name].value)
         ELSE Null

\* the operators on the operands -7 and 2, and on 3 and 2
Expected(op, a, b) ==
    IF a = 0 - 7 /\ b = 2
    THEN CASE op = "|" -> 0 - 5 [] op = "^" -> 0 - 5 [] op = "&" -> 0
           [] op = "<<" -> 0 - 28 [] op = ">>" -> 0 - 2 [] op = "+" -> 0 - 5
           [] op = "-" -> 0 - 9 [] op = "*" -> 0 - 14 [] op = "/" -> 0 - 3
           [] op = "%" -> 0 - 1
    ELSE CASE op = "|" -> 3 [] op = "^" -> 1 [] op = "&" -> 2
           [] op = "<<" -> 12 [] op = ">>" -> 0 [] op = "+" -> 5
           [] op = "-" -> 1 [] op = "*" -> 6 [] op = "/" -> 1
           [] op = "%" -> 1

\* C14: unknown-ness goes through every node and never becomes an error or a
\* number: a unary node gives null exactly when its operand does, a binary
\* node with both sides gives null exactly when its left or its right operand
\* does, and otherwise the node gives the operator applied to the operand
\* values, left first; a literal gives its value for every pc and mustExist.
C14_NullPropagates ==
    /\ last.op \in {"value.eval", "labelValue.eval", "unaryOperation.eval",
                    "binaryOperation.eval"} => last.ret.tag \in {"num", "null"}
    /\ last.op = "value.eval" => last.ret = Num(last.e.nn)
    /\ last.op = "unaryOperation.eval" =>
         LET x == LeafNow(last.e.e) IN
         /\ last.ret = Null <=> x = Null
         /\ IsNum(x) => last.ret = Num(unaryOp(last.e.op, x.v))
         /\ (x = Num(0 - 7) /\ last.e.op = "~") => last.ret = Num(6)
         /\ (x = Num(3) /\ last.e.op = "-") => last.ret = Num(0 - 3)
    /\ (last.op = "binaryOperation.eval" /\ last.e.left # NoExpr) =>
         LET l == LeafNow(last.e.left)
             r == LeafNow(last.e.right) IN
         /\ last.ret = Null <=> (l = Null \/ r = Null)
         /\ (IsNum(l) /\ IsNum(r)) => last.ret = Num(binaryOp(last.e.op, l.v, r.v))
         /\ (l \in {Num(0 - 7), Num(3)} /\ r = Num(2))
               => last.ret = Num(Expected(last.e.op, l.v, r.v))

\* C14 witness: a division of a known label by an unknown one gave null.
C14_Witness ==
    /\ last.op = "binaryOperation.eval"
    /\ last.e = binaryOperation(labelValue("A"), labelValue("B"), "/")
    /\ labels["A"].known /\ ~labels["B"].known
    /\ last.ret = Null

----------------------------------------------------------------------------
(* Properties of the byte-block emitter, checked under SpecBlock *)

====
